---- MODULE Spec2Model ----
(***************************************************************************)
(* A model of the NCERT revision tool: the word chunker, the file-backed   *)
(* retriever (rag_retriever.py) and the two front ends that drive it, the  *)
(* Streamlit page (app.py) and the console loop (rag_retriever.py          *)
(* __main__).  Texts are sequences of one-character strings; embeddings    *)
(* are integer vectors whose norms are integers, so that every cosine is   *)
(* an exact rational and the float comparisons of the code are exact.      *)
(***************************************************************************)
EXTENDS Integers, Sequences, FiniteSets, TLC

VARIABLES
    ct,            \* the frame of one chunk_text call: arguments, i, chunks, pc
    file,          \* the source text file: [exists, text]
    state,         \* FileRAGRetriever: "new", "ready" (constructed), "failed"
    chunks,        \* self.chunks
    embeddings,    \* self.embeddings
    load,          \* what the Embedding Service answered for each chunk at load
    ret,           \* the last retrieve call: arguments, query embedding, result
    frontend,      \* which program drives the retriever: "app", "cli", "none"
    current_q,     \* st.session_state.current_q / q of the console loop
    conversation,  \* st.session_state.conversation / conversation
    run            \* the last handler run: its inputs, service calls, log, display

vars == <<ct, file, state, chunks, embeddings, load, ret,
          frontend, current_q, conversation, run>>

-----------------------------------------------------------------------------
(* Bounds of the model.                                                    *)

MaxTextLen == 5      \* characters of a text handed to chunk_text directly
MaxChunkSize == 3    \* chunk_size of a direct chunk_text call
MaxOverlap == 3      \* overlap of a direct chunk_text call
MaxIter == 3         \* iterations explored of a window loop that never ends
MaxFileChunks == 3   \* chunks of the largest source file
MaxTopK == 3         \* largest top_k of a direct retrieve call
MaxTurns == 2        \* turns of the longest conversation

-----------------------------------------------------------------------------
(* Python values.                                                          *)

None == [py |-> "None"]

Min(a, b) == IF a < b THEN a ELSE b
Max(a, b) == IF a > b THEN a ELSE b

\* Whitespace as str.split() and str.strip() see it.
White == {" ", "\n"}
Alphabet == {"a", "b"} \cup White

\* s[start:stop] on a sequence, with Python's negative and out-of-range indices.
PySlice(s, start, stop) ==
    LET n == Len(s)
        a == IF start < 0 THEN Max(start + n, 0) ELSE Min(start, n)
        b == IF stop < 0 THEN Max(stop + n, 0) ELSE Min(stop, n)
    IN  IF a >= b THEN << >> ELSE SubSeq(s, a + 1, b)

\* text.split(): the maximal runs of non-whitespace characters, in order.
\* Divides at the whitespace nearest the middle, so the depth is logarithmic.
RECURSIVE Split(_)
Split(t) ==
    LET n == Len(t)
        ws == {i \in 1..n : t[i] \in White}
    IN  IF ws = {} THEN (IF n = 0 THEN << >> ELSE <<t>>)
        ELSE LET mid == (n + 1) \div 2
                 Dist(i) == IF i >= mid THEN i - mid ELSE mid - i
                 p == CHOOSE i \in ws : \A j \in ws : Dist(i) <= Dist(j)
             IN  Split(SubSeq(t, 1, p - 1)) \o Split(SubSeq(t, p + 1, n))

\* " ".join(words)
RECURSIVE Join(_)
Join(words) ==
    IF Len(words) = 0 THEN << >>
    ELSE IF Len(words) = 1 THEN words[1]
    ELSE LET h == Len(words) \div 2
         IN  Join(SubSeq(words, 1, h)) \o <<" ">>
                 \o Join(SubSeq(words, h + 1, Len(words)))

\* text.strip()
Strip(t) ==
    LET keep == {i \in 1..Len(t) : t[i] \notin White}
    IN  IF keep = {} THEN << >>
        ELSE SubSeq(t, CHOOSE i \in keep : \A j \in keep : i <= j,
                       CHOOSE i \in keep : \A j \in keep : i >= j)

-----------------------------------------------------------------------------
(* chunk_text (rag_retriever.py).                                          *)

DefaultChunkSize == 300
DefaultOverlap == 50

\* Faulty variant of ChunkBody: the window advances by chunk_size.
ChunkBodyNoOverlap(words, chunk_size, overlap, st) ==
    LET chunk == Join(PySlice(words, st.i, st.i + chunk_size))
    IN  [i |-> st.i + chunk_size,
         chunks |-> IF chunk # << >> THEN Append(st.chunks, chunk) ELSE st.chunks]

\* One pass of the while body: the window at i, then i += chunk_size - overlap.
ChunkBody(words, chunk_size, overlap, st) ==
    LET chunk == Join(PySlice(words, st.i, st.i + chunk_size))
    IN  [i |-> st.i + chunk_size - overlap,
         chunks |-> IF chunk # << >> THEN Append(st.chunks, chunk) ELSE st.chunks]

RECURSIVE ChunkLoop(_, _, _, _)
ChunkLoop(words, chunk_size, overlap, st) ==
    IF st.i < Len(words)
    THEN ChunkLoop(words, chunk_size, overlap, ChunkBody(words, chunk_size, overlap, st))
    ELSE st.chunks

\* The whole call, for parameters under which the loop ends.
chunk_text(text, chunk_size, overlap) ==
    ChunkLoop(Split(text), chunk_size, overlap, [i |-> 0, chunks |-> << >>])

\* A direct call, one loop iteration per step.
CtIdle == [pc |-> "idle"]

RECURSIVE SeqsUpTo(_, _)
SeqsUpTo(S, n) ==
    IF n = 0 THEN {<< >>}
    ELSE LET shorter == SeqsUpTo(S, n - 1)
         IN  shorter \cup {Append(s, c) : s \in {x \in shorter : Len(x) = n - 1}, c \in S}

CtInit ==
    \E text \in SeqsUpTo(Alphabet, MaxTextLen), cs \in 1..MaxChunkSize, ov \in 0..MaxOverlap :
        ct = [pc |-> "loop", text |-> text, chunk_size |-> cs, overlap |-> ov,
              i |-> 0, chunks |-> << >>, iter |-> 0]

CtStep ==
    /\ ct.pc = "loop"
    /\ ct.i < Len(Split(ct.text))
    /\ ct.iter < MaxIter \/ ct.overlap < ct.chunk_size
    /\ LET st == ChunkBody(Split(ct.text), ct.chunk_size, ct.overlap,
                           [i |-> ct.i, chunks |-> ct.chunks])
       IN  ct' = [ct EXCEPT !.i = st.i, !.chunks = st.chunks, !.iter = Min(@ + 1, MaxIter)]

CtReturn ==
    /\ ct.pc = "loop"
    /\ ~(ct.i < Len(Split(ct.text)))
    /\ ct' = [ct EXCEPT !.pc = "returned"]

-----------------------------------------------------------------------------
(* Floats and vectors.  A float is an exact fraction in lowest terms with  *)
(* a positive denominator; an ndarray is a tuple of integers.              *)

Abs(n) == IF n < 0 THEN -n ELSE n

RECURSIVE GCD(_, _)
GCD(a, b) == IF b = 0 THEN a ELSE GCD(b, a % b)

\* float(num / den), den > 0
Float(num, den) ==
    LET g == GCD(Abs(num), den)
    IN  [py |-> "float", num |-> num \div g, den |-> den \div g]

Gt(x, y) == x.num * y.den > y.num * x.den
Ge(x, y) == x.num * y.den >= y.num * x.den

NdArray(v) == [py |-> "ndarray", v |-> v]

RECURSIVE DotFrom(_, _, _)
DotFrom(a, b, k) == IF k > Len(a) THEN 0 ELSE a[k] * b[k] + DotFrom(a, b, k + 1)

\* np.dot(a, b)
Dot(a, b) == DotFrom(a.v, b.v, 1)

\* np.linalg.norm(a), for the vectors of the model (their norms are integers)
Norm(a) == LET n == Dot(a, a) IN CHOOSE r \in 0..n : r * r = n

\* FileRAGRetriever._cosine_sim
_cosine_sim(a, b) ==
    LET denom == Norm(a) * Norm(b)
    IN  IF denom = 0 THEN Float(-1, 1) ELSE Float(Dot(a, b), denom)

-----------------------------------------------------------------------------
(* The Embedding Service and FileRAGRetriever._embed.                      *)

Zero == <<0, 0, 0, 0, 0>>
E1 == <<1, 0, 0, 0, 0>>
NegE1 == <<-1, 0, 0, 0, 0>>
V06 == <<3, 4, 0, 0, 0>>        \* cosine 0.6 with E1
V08 == <<4, 3, 0, 0, 0>>        \* cosine 0.8 with E1
V085 == <<17, 10, 3, 1, 1>>     \* cosine 0.85 with E1

Vectors == {Zero, E1, NegE1, V06, V08, V085}

\* _cosine_sim on the vectors of the model, computed once.
CosineTable == [a \in Vectors, b \in Vectors |-> _cosine_sim(NdArray(a), NdArray(b))]
Cosine(a, b) == CosineTable[a.v, b.v]

\* What genai.embed_content does: it raises, or answers {"embedding": [...]}.
Responses == {[ok |-> FALSE]} \cup {[ok |-> TRUE, embedding |-> v] : v \in Vectors}

\* The answers explored for a chunk or a question: all of them for a retriever
\* used directly, two of them under a front end.
ChunkResponses ==
    IF frontend = "none" THEN Responses
    ELSE {r \in Responses : r.ok => r.embedding = E1}

\* The answers explored for a user answer and for a model answer.
UserResponses == {r \in Responses : r.ok => r.embedding = E1}
ModelResponses == {r \in Responses : r.ok => r.embedding \in {Zero, E1, V06, V085}}

_embed(resp) == IF resp.ok THEN NdArray(resp.embedding) ELSE None

-----------------------------------------------------------------------------
(* FileRAGRetriever.                                                       *)

Filename == "Understanding Media.txt"

\* Faulty variant of LoadEmbeddings: a failed embedding is not appended.
RECURSIVE LoadEmbeddingsSkipFailed(_, _)
LoadEmbeddingsSkipFailed(resps, k) ==
    IF k > Len(resps) THEN << >>
    ELSE (IF resps[k].ok THEN <<_embed(resps[k])>> ELSE << >>)
             \o LoadEmbeddingsSkipFailed(resps, k + 1)

\* The loop of _load_and_embed_chunks: one embedding appended per chunk.
RECURSIVE LoadEmbeddings(_, _)
LoadEmbeddings(resps, k) ==
    IF k > Len(resps) THEN << >>
    ELSE <<_embed(resps[k])>> \o LoadEmbeddings(resps, k + 1)

\* Faulty variant of InsertDesc: an entry goes ahead of its equals.
InsertDescBeforeEqual(sorted, e) ==
    LET n == Len(sorted)
        ahead == {k \in 1..n : Gt(sorted[k].score, e.score)}
        p == Cardinality(ahead)
    IN  SubSeq(sorted, 1, p) \o <<e>> \o SubSeq(sorted, p + 1, n)

\* list.sort(key=score, reverse=True) is stable: an entry goes after every
\* entry already placed whose score is greater or equal.
InsertDesc(sorted, e) ==
    LET n == Len(sorted)
        ahead == {k \in 1..n : Ge(sorted[k].score, e.score)}
        p == Cardinality(ahead)
    IN  SubSeq(sorted, 1, p) \o <<e>> \o SubSeq(sorted, p + 1, n)

RECURSIVE SortDesc(_, _)
SortDesc(scored, k) ==
    IF k = 0 THEN << >> ELSE InsertDesc(SortDesc(scored, k - 1), scored[k])

\* Faulty variant of Scan: an absent embedding is scored as a zero vector.
RECURSIVE ScanNoneAsZero(_, _, _, _)
ScanNoneAsZero(q_emb, cs, es, k) ==
    IF k > Min(Len(cs), Len(es)) THEN << >>
    ELSE <<[chunk_id |-> k - 1, filename |-> Filename, text |-> cs[k],
            score |-> IF es[k] = None THEN Float(-1, 1) ELSE Cosine(q_emb, es[k])]>>
             \o ScanNoneAsZero(q_emb, cs, es, k + 1)

\* The scan of retrieve over enumerate(zip(self.chunks, self.embeddings)).
RECURSIVE Scan(_, _, _, _)
Scan(q_emb, cs, es, k) ==
    IF k > Min(Len(cs), Len(es)) THEN << >>
    ELSE (IF es[k] = None THEN << >>
          ELSE <<[chunk_id |-> k - 1, filename |-> Filename, text |-> cs[k],
                  score |-> Cosine(q_emb, es[k])]>>)
             \o Scan(q_emb, cs, es, k + 1)

\* retrieve(query, top_k), given the service's answer for the query.
retrieve(cs, es, q_resp, top_k) ==
    LET q_emb == _embed(q_resp)
    IN  IF q_emb = None THEN << >>
        ELSE LET scored == Scan(q_emb, cs, es, 1)
             IN  PySlice(SortDesc(scored, Len(scored)), 0, top_k)

\* Source files: words "a" and "bb" in turn, newline before and after.
Stride == DefaultChunkSize - DefaultOverlap

FileWords(n) == [k \in 1..n |-> IF k % 2 = 1 THEN <<"a">> ELSE <<"b", "b">>]
FileText(n) == <<"\n">> \o Join(FileWords(n)) \o <<"\n">>

FileLens == {0} \cup {Stride * k + 1 : k \in 0..(MaxFileChunks - 1)}

Files == {[exists |-> FALSE, text |-> << >>]}
             \cup {[exists |-> TRUE, text |-> FileText(n)] : n \in FileLens}

NoCall == [op |-> "none"]

Unset == [py |-> "unset"]
Str(x) == [py |-> "str", s |-> x]

\* What one run of a front end consumed, called, logged and showed.
RunRec(op, question, user_answer) ==
    [op |-> op, question |-> question, user_answer |-> user_answer,
     q_resp |-> Unset, results |-> << >>, gen |-> Unset,
     user_emb |-> Unset, model_emb |-> Unset,
     calls |-> << >>, log |-> << >>, display |-> << >>]

\* No run yet.
RunIdle == RunRec("none", "", << >>)

\* FileRAGRetriever(filepath): __init__ and _load_and_embed_chunks.
ConstructMissing ==
    /\ state = "new"
    /\ ~file.exists
    /\ state' = "failed"
    /\ UNCHANGED <<chunks, embeddings, load>>

ConstructLoad ==
    /\ state = "new"
    /\ file.exists
    /\ LET cs == chunk_text(file.text, DefaultChunkSize, DefaultOverlap)
       IN  /\ chunks' = cs
           /\ \E resps \in [1..Len(cs) -> ChunkResponses] :
                  /\ load' = resps
                  /\ embeddings' = LoadEmbeddings(resps, 1)
    /\ state' = "ready"

Construct ==
    /\ ConstructMissing \/ ConstructLoad
    /\ UNCHANGED <<ct, file, ret, frontend, current_q, conversation, run>>

Queries == {"What is media?"}

\* A direct call of retrieve on the constructed retriever ...
Retrieve ==
    /\ state = "ready"
    /\ frontend = "none"
    /\ ret = NoCall
    /\ \E query \in Queries, q_resp \in Responses, top_k \in 1..MaxTopK :
           ret' = [op |-> "retrieve", query |-> query, top_k |-> top_k,
                   q_resp |-> q_resp,
                   results |-> retrieve(chunks, embeddings, q_resp, top_k)]
    /\ UNCHANGED <<ct, file, state, chunks, embeddings, load,
                   frontend, current_q, conversation, run>>

\* ... and its caller taking the result.
RetrieveReturn ==
    /\ ret # NoCall
    /\ frontend = "none"
    /\ ret' = NoCall
    /\ UNCHANGED <<ct, file, state, chunks, embeddings, load,
                   frontend, current_q, conversation, run>>

RetrieverInit ==
    /\ ct = CtIdle
    /\ file \in Files
    /\ state = "new"
    /\ chunks = << >>
    /\ embeddings = << >>
    /\ load = << >>
    /\ ret = NoCall
    /\ frontend = "none"
    /\ current_q = ""
    /\ conversation = << >>
    /\ run = RunIdle

RetrieverNext == Construct \/ Retrieve \/ RetrieveReturn

SpecRetriever == RetrieverInit /\ [][RetrieverNext]_vars

ChunkInit ==
    /\ CtInit
    /\ file = [exists |-> FALSE, text |-> << >>]
    /\ state = "new"
    /\ chunks = << >>
    /\ embeddings = << >>
    /\ load = << >>
    /\ ret = NoCall
    /\ frontend = "none"
    /\ current_q = ""
    /\ conversation = << >>
    /\ run = RunIdle

ChunkNext ==
    /\ CtStep \/ CtReturn
    /\ UNCHANGED <<file, state, chunks, embeddings, load, ret,
                   frontend, current_q, conversation, run>>

SpecChunk == ChunkInit /\ [][ChunkNext]_vars

-----------------------------------------------------------------------------
(* The front ends: the Streamlit page (app.py) and the console loop        *)
(* (rag_retriever.py __main__).  The strings of app.py are written without *)
(* their emoji.                                                            *)

Questions == {"What is media?", "What is censorship?"}

TopK == 3

\* genai.GenerativeModel(...).generate_content(prompt) and response.text:
\* an exception, or the text of the answer.
GenOutcomes == {[ok |-> FALSE], [ok |-> TRUE, text |-> "Media is communication."]}

\* FileRAGRetriever.build_teaching_prompt: the passages numbered in the order
\* given, then the question, inside the fixed template.
build_teaching_prompt(query, retrieved_chunks) ==
    [passages |-> [k \in 1..Len(retrieved_chunks) |-> <<k, retrieved_chunks[k].text>>],
     question |-> query]

LogRec(logger, level, what) == [logger |-> logger, level |-> level, what |-> what]

\* What _embed logs.
EmbedLog(resp) ==
    IF resp.ok THEN << >> ELSE <<LogRec("RAGRetrieverLogger", "ERROR", "Embedding failed")>>

\* What retrieve logs.
RetrieveLog(q_resp) ==
    <<LogRec("RAGRetrieverLogger", "INFO", "Retrieving")>> \o EmbedLog(q_resp)
        \o (IF q_resp.ok THEN <<LogRec("RAGRetrieverLogger", "INFO", "Retrieved")>>
            ELSE <<LogRec("RAGRetrieverLogger", "ERROR", "Could not compute query embedding.")>>)

\* Faulty variant of AppGrade: the thresholds are inclusive.
AppGradeInclusive(sim) ==
    IF Ge(sim, Float(17, 20)) THEN "Correct!"
    ELSE IF Ge(sim, Float(3, 5)) THEN "Partially correct."
    ELSE "Incorrect or unrelated."

\* The if / elif / else on sim, in app.py and in the console loop.
AppGrade(sim) ==
    IF Gt(sim, Float(17, 20)) THEN "Correct!"
    ELSE IF Gt(sim, Float(3, 5)) THEN "Partially correct."
    ELSE "Incorrect or unrelated."

CliGrade(sim) ==
    IF Gt(sim, Float(17, 20)) THEN "Correct!"
    ELSE IF Gt(sim, Float(3, 5)) THEN "Partially correct."
    ELSE "Incorrect or unrelated."

\* The history block at the end of the page: every turn, in list order.
AppHistory(conv) == IF conv # << >> THEN <<[show |-> "history", text |-> "Conversation History", turns |-> conv]>> ELSE << >>

\* app.py, first run of the page: session state is set up.
AppStart ==
    /\ frontend = "app"
    /\ state = "ready"
    /\ run.op = "none"
    /\ \E q \in Questions : 
           /\ current_q' = q
           /\ run' = RunRec("start", q, << >>)
    /\ conversation' = << >>
    /\ UNCHANGED <<ct, file, state, chunks, embeddings, load, ret, frontend>>

\* app.py, a run with "Next Question" pressed.
AppNextQuestion ==
    /\ frontend = "app"
    /\ state = "ready"
    /\ run.op # "none"
    /\ \E q \in Questions :
           /\ current_q' = q
           /\ run' = [RunRec("next", q, << >>) EXCEPT !.display = AppHistory(conversation)]
    /\ UNCHANGED <<ct, file, state, chunks, embeddings, load, ret, frontend, conversation>>

\* app.py, "Submit Answer" with an answer that strips to nothing: the
\* condition of the if is false.
AppEmptyAnswer(conv, question, user_answer) ==
    [conversation |-> conv,
     run |-> [RunRec("submit", question, user_answer) EXCEPT !.display = AppHistory(conv)]]

\* Faulty variant of AppNoChunks: generation is called and nothing is logged.
AppNoChunksGenerates(conv, question, user_answer, q_resp, results) ==
    [conversation |-> conv,
     run |-> [RunRec("submit", question, user_answer) EXCEPT
                 !.q_resp = q_resp,
                 !.results = results,
                 !.calls = <<"embed query", "generate">>,
                 !.log = RetrieveLog(q_resp),
                 !.display = <<[show |-> "warning",
                                text |-> "No relevant chunks found for this question."]>>
                                 \o AppHistory(conv)]]

\* app.py, the branch "if not results".
AppNoChunks(conv, question, user_answer, q_resp, results) ==
    [conversation |-> conv,
     run |-> [RunRec("submit", question, user_answer) EXCEPT
                 !.q_resp = q_resp,
                 !.results = results,
                 !.calls = <<"embed query">>,
                 !.log = RetrieveLog(q_resp)
                     \o <<LogRec("ResponseLogger", "INFO", "No relevant chunks found.")>>,
                 !.display = <<[show |-> "warning",
                                text |-> "No relevant chunks found for this question."]>>
                                 \o AppHistory(conv)]]

\* Faulty variant of AppGenError: a turn is appended all the same.
AppGenErrorAppends(conv, question, user_answer, q_resp, results, gen) ==
    LET conv2 == Append(conv, [question |-> question, user_answer |-> user_answer,
                               model_answer |-> "", feedback |-> "Could not compute feedback",
                               similarity |-> Str("N/A")])
    IN  [conversation |-> conv2,
         run |-> [RunRec("submit", question, user_answer) EXCEPT
                     !.q_resp = q_resp,
                     !.results = results,
                     !.gen = gen,
                     !.calls = <<"embed query", "generate">>,
                     !.log = RetrieveLog(q_resp)
                         \o <<LogRec("ResponseLogger", "ERROR", "Error")>>,
                     !.display = <<[show |-> "error", text |-> "Error generating answer"]>>
                                     \o AppHistory(conv2)]]

\* app.py, the except branch of the try around generation and scoring.
AppGenError(conv, question, user_answer, q_resp, results, gen) ==
    [conversation |-> conv,
     run |-> [RunRec("submit", question, user_answer) EXCEPT
                 !.q_resp = q_resp,
                 !.results = results,
                 !.gen = gen,
                 !.calls = <<"embed query", "generate">>,
                 !.log = RetrieveLog(q_resp)
                     \o <<LogRec("ResponseLogger", "ERROR", "Error")>>,
                 !.display = <<[show |-> "error", text |-> "Error generating answer"]>>
                                 \o AppHistory(conv)]]

\* Faulty variant of AppTurn: an absent embedding is scored as a zero vector.
AppTurnAbsentAsZero(question, user_answer, model_answer, user_emb, model_emb) ==
    LET u == IF user_emb = None THEN NdArray(Zero) ELSE user_emb
        m == IF model_emb = None THEN NdArray(Zero) ELSE model_emb
    IN  [question |-> question, user_answer |-> user_answer,
         model_answer |-> model_answer,
         feedback |-> AppGrade(Cosine(u, m)),
         similarity |-> Cosine(u, m)]

\* app.py, the scoring of the answer and the turn it stores.
AppTurn(question, user_answer, model_answer, user_emb, model_emb) ==
    LET scored == user_emb # None /\ model_emb # None
    IN  [question |-> question, user_answer |-> user_answer,
         model_answer |-> model_answer,
         feedback |-> IF scored THEN AppGrade(Cosine(user_emb, model_emb))
                      ELSE "Could not compute feedback",
         similarity |-> IF scored THEN Cosine(user_emb, model_emb) ELSE Str("N/A")]

\* Faulty variant of AppScored: the new turn is put at the head of the list.
AppScoredPrepends(conv, question, user_answer, q_resp, results, gen, user_resp, model_resp) ==
    LET user_emb == _embed(user_resp)
        model_emb == _embed(model_resp)
        turn == AppTurn(question, user_answer, gen.text, user_emb, model_emb)
        conv2 == <<turn>> \o conv
    IN  [conversation |-> conv2,
         run |-> [RunRec("submit", question, user_answer) EXCEPT
                     !.q_resp = q_resp,
                     !.results = results,
                     !.gen = gen,
                     !.user_emb = user_emb,
                     !.model_emb = model_emb,
                     !.calls = <<"embed query", "generate", "embed user answer",
                                 "embed model answer">>,
                     !.log = RetrieveLog(q_resp) \o EmbedLog(user_resp) \o EmbedLog(model_resp)
                         \o <<LogRec("ResponseLogger", "INFO", "Model Answer")>>,
                     !.display = <<[show |-> "model answer", text |-> gen.text],
                                   IF user_emb # None /\ model_emb # None
                                   THEN [show |-> "feedback", text |-> turn.feedback]
                                   ELSE [show |-> "info",
                                         text |-> "Could not compute feedback for your answer."]>>
                                     \o AppHistory(conv2)]]

\* app.py, the try body once generation has answered: score, append, log.
AppScored(conv, question, user_answer, q_resp, results, gen, user_resp, model_resp) ==
    LET user_emb == _embed(user_resp)
        model_emb == _embed(model_resp)
        turn == AppTurn(question, user_answer, gen.text, user_emb, model_emb)
        conv2 == Append(conv, turn)
    IN  [conversation |-> conv2,
         run |-> [RunRec("submit", question, user_answer) EXCEPT
                     !.q_resp = q_resp,
                     !.results = results,
                     !.gen = gen,
                     !.user_emb = user_emb,
                     !.model_emb = model_emb,
                     !.calls = <<"embed query", "generate", "embed user answer",
                                 "embed model answer">>,
                     !.log = RetrieveLog(q_resp) \o EmbedLog(user_resp) \o EmbedLog(model_resp)
                         \o <<LogRec("ResponseLogger", "INFO", "Model Answer")>>,
                     !.display = <<[show |-> "model answer", text |-> gen.text],
                                   IF user_emb # None /\ model_emb # None
                                   THEN [show |-> "feedback", text |-> turn.feedback]
                                   ELSE [show |-> "info",
                                         text |-> "Could not compute feedback for your answer."]>>
                                     \o AppHistory(conv2)]]

\* What is typed into the answer box.
Answers == {<< >>, <<" ">>, <<"a">>}

\* app.py, the body of "if st.button(Submit Answer) and user_answer.strip()":
\* every outcome of one run, over the answers of the two services.
AppAfterGenerate(conv, question, user_answer, q_resp, results, gen) ==
    IF ~gen.ok
    THEN {AppGenError(conv, question, user_answer, q_resp, results, gen)}
    ELSE {AppScored(conv, question, user_answer, q_resp, results, gen, user_resp, model_resp) :
              user_resp \in UserResponses, model_resp \in ModelResponses}

AppAfterRetrieve(conv, question, user_answer, q_resp, results) ==
    IF results = << >>
    THEN {AppNoChunks(conv, question, user_answer, q_resp, results)}
    ELSE UNION {AppAfterGenerate(conv, question, user_answer, q_resp, results, gen) :
                    gen \in GenOutcomes}

\* Faulty variant of AppSubmitOutcomes: an answer of one character is taken
\* for an empty one.
AppSubmitOutcomesDropsShort(conv, question, user_answer) ==
    IF Len(Strip(user_answer)) <= 1
    THEN {AppEmptyAnswer(conv, question, user_answer)}
    ELSE UNION {UNION {AppAfterRetrieve(conv, question, user_answer, q_resp, results) :
                           results \in {retrieve(chunks, embeddings, q_resp, TopK)}} :
                    q_resp \in ChunkResponses}

\* app.py, the condition of the submit branch and what follows it.
AppSubmitOutcomes(conv, question, user_answer) ==
    IF Strip(user_answer) = << >>
    THEN {AppEmptyAnswer(conv, question, user_answer)}
    ELSE UNION {UNION {AppAfterRetrieve(conv, question, user_answer, q_resp, results) :
                           results \in {retrieve(chunks, embeddings, q_resp, TopK)}} :
                    q_resp \in ChunkResponses}

\* app.py, a run with "Submit Answer" pressed.
AppSubmit ==
    /\ frontend = "app"
    /\ state = "ready"
    /\ run.op # "none"
    /\ \E user_answer \in Answers :
           \E out \in AppSubmitOutcomes(conversation, current_q, user_answer) :
               /\ Len(out.conversation) <= MaxTurns
               /\ conversation' = out.conversation
               /\ run' = out.run
    /\ UNCHANGED <<ct, file, state, chunks, embeddings, load, ret, frontend, current_q>>

\* str.lower(), on the characters of the model.
LowerChar(c) ==
    CASE c = "E" -> "e" [] c = "X" -> "x" [] c = "I" -> "i" [] c = "T" -> "t" [] OTHER -> c

Lower(t) == [k \in 1..Len(t) |-> LowerChar(t[k])]

Exit == <<"e", "x", "i", "t">>

\* What is typed at the console prompt.
CliAnswers == {<< >>, <<"a">>, <<" ", "E", "x", "i", "t", "\n">>}

\* The console loop, the branch "if not results".
CliNoChunks(conv, q, user_ans, q_resp, results) ==
    [conversation |-> conv,
     run |-> [RunRec("turn", q, user_ans) EXCEPT
                 !.q_resp = q_resp,
                 !.results = results,
                 !.calls = <<"embed query">>,
                 !.log = RetrieveLog(q_resp)
                     \o <<LogRec("RAGRetrieverLogger", "WARNING",
                                 "No relevant chunks found for this question.")>>,
                 !.display = <<[show |-> "print",
                                text |-> "No relevant chunks found for this question."]>>]]

\* The console loop, the except branch.
CliGenError(conv, q, user_ans, q_resp, results, gen) ==
    [conversation |-> conv,
     run |-> [RunRec("turn", q, user_ans) EXCEPT
                 !.q_resp = q_resp,
                 !.results = results,
                 !.gen = gen,
                 !.calls = <<"embed query", "generate">>,
                 !.log = RetrieveLog(q_resp)
                     \o <<LogRec("RAGRetrieverLogger", "ERROR", "Error generating answer")>>,
                 !.display = <<[show |-> "print", text |-> "Error generating answer"]>>]]

\* The console loop, the scoring of the answer and the append of the turn.
CliTurnRec(q, user_ans, model_ans, user_emb, model_emb) ==
    LET scored == user_emb # None /\ model_emb # None
    IN  [question |-> q, user_answer |-> user_ans, model_answer |-> model_ans,
         feedback |-> IF scored THEN CliGrade(Cosine(user_emb, model_emb))
                      ELSE "Unable to compute similarity for feedback.",
         similarity |-> IF scored THEN Cosine(user_emb, model_emb) ELSE None]

CliScored(conv, q, user_ans, q_resp, results, gen, user_resp, model_resp) ==
    LET user_emb == _embed(user_resp)
        model_emb == _embed(model_resp)
        turn == CliTurnRec(q, user_ans, gen.text, user_emb, model_emb)
        conv2 == Append(conv, turn)
    IN  [conversation |-> conv2,
         run |-> [RunRec("turn", q, user_ans) EXCEPT
                     !.q_resp = q_resp,
                     !.results = results,
                     !.gen = gen,
                     !.user_emb = user_emb,
                     !.model_emb = model_emb,
                     !.calls = <<"embed query", "generate", "embed user answer",
                                 "embed model answer">>,
                     !.log = RetrieveLog(q_resp) \o EmbedLog(user_resp) \o EmbedLog(model_resp),
                     !.display = <<[show |-> "model answer", text |-> gen.text],
                                   [show |-> "feedback", text |-> turn.feedback],
                                   [show |-> "history", text |-> "Conversation History", turns |-> conv2]>>]]

\* One iteration of the console loop after the exit test: every outcome, over
\* the answers of the two services.
CliAfterGenerate(conv, q, user_ans, q_resp, results, gen) ==
    IF ~gen.ok
    THEN {CliGenError(conv, q, user_ans, q_resp, results, gen)}
    ELSE {CliScored(conv, q, user_ans, q_resp, results, gen, user_resp, model_resp) :
              user_resp \in UserResponses, model_resp \in ModelResponses}

CliAfterRetrieve(conv, q, user_ans, q_resp, results) ==
    IF results = << >>
    THEN {CliNoChunks(conv, q, user_ans, q_resp, results)}
    ELSE UNION {CliAfterGenerate(conv, q, user_ans, q_resp, results, gen) :
                    gen \in GenOutcomes}

CliTurnOutcomes(conv, q, user_ans) ==
    IF Lower(Strip(user_ans)) = Exit
    THEN {[conversation |-> conv, run |-> RunRec("exit", q, user_ans)]}
    ELSE UNION {UNION {CliAfterRetrieve(conv, q, user_ans, q_resp, results) :
                           results \in {retrieve(chunks, embeddings, q_resp, TopK)}} :
                    q_resp \in ChunkResponses}

\* One iteration of the console loop.
CliTurn ==
    /\ frontend = "cli"
    /\ state = "ready"
    /\ run.op # "exit"
    /\ \E q \in Questions, user_ans \in CliAnswers :
           \E out \in CliTurnOutcomes(conversation, q, user_ans) :
               /\ Len(out.conversation) <= MaxTurns
               /\ current_q' = q
               /\ conversation' = out.conversation
               /\ run' = out.run
    /\ UNCHANGED <<ct, file, state, chunks, embeddings, load, ret, frontend>>

\* The source files explored under a front end: missing, empty, two words.
SessionFiles == {[exists |-> FALSE, text |-> << >>],
                 [exists |-> TRUE, text |-> FileText(0)],
                 [exists |-> TRUE, text |-> FileText(2)]}

Init ==
    /\ ct = CtIdle
    /\ file \in SessionFiles
    /\ state = "new"
    /\ chunks = << >>
    /\ embeddings = << >>
    /\ load = << >>
    /\ ret = NoCall
    /\ frontend \in {"app", "cli"}
    /\ current_q = ""
    /\ conversation = << >>
    /\ run = RunIdle

Next == Construct \/ AppStart \/ AppNextQuestion \/ AppSubmit \/ CliTurn

Spec == Init /\ [][Next]_vars

-----------------------------------------------------------------------------
(* Properties of chunk_text, under SpecChunk.                              *)

\* The whitespace-delimited words of a text, stated without Split: the
\* maximal runs of non-whitespace characters, by increasing start.
Runs(t) ==
    LET n == Len(t)
        S == {i \in 1..n : t[i] \notin White /\ (i = 1 \/ t[i - 1] \in White)}
        End(i) == CHOOSE j \in i..n :
                      /\ \A k \in i..j : t[k] \notin White
                      /\ j = n \/ t[j + 1] \in White
        Nth(k) == CHOOSE x \in S : Cardinality({y \in S : y <= x}) = k
    IN  [k \in 1..Cardinality(S) |-> SubSeq(t, Nth(k), End(Nth(k)))]

\* The first chunk in full, every later chunk without its first overlap words.
RECURSIVE Rebuild(_, _, _)
Rebuild(cs, overlap, k) ==
    IF k > Len(cs) THEN << >>
    ELSE LET w == Runs(cs[k])
         IN  (IF k = 1 THEN w ELSE SubSeq(w, overlap + 1, Len(w)))
                 \o Rebuild(cs, overlap, k + 1)

\* C2: for 0 <= overlap < chunk_size, a returned chunk_text call has chunks of
\* at most chunk_size words each; the first chunk followed by the later chunks
\* without their first overlap words is exactly the word sequence of the
\* text; and an empty text gives no chunks.
C2_ChunksRebuildText ==
    (ct.pc = "returned" /\ ct.overlap < ct.chunk_size) =>
        /\ \A k \in 1..Len(ct.chunks) :
               /\ Len(Runs(ct.chunks[k])) <= ct.chunk_size
               /\ Len(Runs(ct.chunks[k])) >= 1
        /\ Rebuild(ct.chunks, ct.overlap, 1) = Runs(ct.text)
        /\ ct.text = << >> => ct.chunks = << >>

C2_Witness ==
    /\ ct.pc = "returned"
    /\ ct.overlap = 1
    /\ ct.chunk_size = 2
    /\ Len(ct.chunks) = 3
    /\ Len(Runs(ct.chunks[3])) = 1
    /\ Runs(ct.text) = <<(<<"a">>), (<<"b">>), (<<"a">>)>>
    /\ ct.text # Join(Runs(ct.text))

\* C3: a call with overlap >= chunk_size on a non-empty text is rejected: it
\* ends with an error, it produces no chunk and it does not keep looping.
C3_BadOverlapRejected ==
    (ct.pc # "idle" /\ ct.overlap >= ct.chunk_size /\ Runs(ct.text) # << >>) =>
        /\ ct.chunks = << >>
        /\ ct.iter = 0
        /\ ct.pc \in {"loop", "raised"}

-----------------------------------------------------------------------------
(* Properties of FileRAGRetriever, under SpecRetriever.                    *)

\* Positions (from 1) of the chunks whose embedding is present.
Valid == {k \in 1..Len(embeddings) : embeddings[k] # None}

QueryScore(k) == Cosine(_embed(ret.q_resp), embeddings[k])

\* The ranking order: higher score first, equal scores by chunk index.
RanksBefore(j, k) ==
    \/ Gt(QueryScore(j), QueryScore(k))
    \/ QueryScore(j) = QueryScore(k) /\ j < k

Returned == {ret.results[p].chunk_id + 1 : p \in 1..Len(ret.results)}

\* C1: when the query embedding succeeds, retrieve returns min(top_k, V)
\* entries, all of chunks with a present embedding, each with its cosine
\* score and text, ordered by score descending and by chunk index among equal
\* scores, and every chunk left out ranks after every chunk returned.
C1_TopKOfRanking ==
    (ret # NoCall /\ ret.q_resp.ok) =>
        LET r == ret.results
            n == Min(ret.top_k, Cardinality(Valid))
        IN  /\ Len(r) = n
            /\ Len(r) <= ret.top_k
            /\ \A p \in 1..Len(r) :
                   /\ r[p].chunk_id + 1 \in Valid
                   /\ r[p].score = QueryScore(r[p].chunk_id + 1)
                   /\ r[p].text = chunks[r[p].chunk_id + 1]
            /\ \A p \in 1..(Len(r) - 1) :
                   RanksBefore(r[p].chunk_id + 1, r[p + 1].chunk_id + 1)
            /\ \A k \in Valid \ Returned : \A p \in 1..Len(r) :
                   /\ RanksBefore(r[p].chunk_id + 1, k)
                   /\ Ge(r[p].score, QueryScore(k))

C1_Witness ==
    /\ ret # NoCall
    /\ ret.q_resp.ok
    /\ ret.top_k = 2
    /\ Cardinality(Valid) = 3
    /\ Len(ret.results) = 2
    /\ ret.results[1].score = ret.results[2].score
    /\ ret.results[1].score # Float(-1, 1)
    /\ \E k \in Valid \ Returned : QueryScore(k) = ret.results[2].score

\* C4: a constructed retriever holds one embedding per chunk, the one the
\* service gave for that chunk (absent where the call failed), and no chunk
\* with an absent embedding is in a retrieve result.
C4_EmbeddingsParallelChunks ==
    state = "ready" =>
        /\ Len(embeddings) = Len(chunks)
        /\ Len(load) = Len(chunks)
        /\ \A k \in 1..Len(chunks) :
               /\ embeddings[k] = _embed(load[k])
               /\ embeddings[k] = None <=> ~load[k].ok
        /\ ret # NoCall =>
               \A p \in 1..Len(ret.results) :
                   /\ ret.results[p].chunk_id + 1 \in 1..Len(chunks)
                   /\ embeddings[ret.results[p].chunk_id + 1] # None
                   /\ ret.results[p].text = chunks[ret.results[p].chunk_id + 1]

C4_Witness ==
    /\ state = "ready"
    /\ Len(chunks) = 3
    /\ embeddings[1] = None
    /\ embeddings[2] # None
    /\ embeddings[3] = None
    /\ ret # NoCall
    /\ Len(ret.results) = 1
    /\ ret.results[1].chunk_id = 1

\* C5: a retrieve call whose query embedding fails, or on a retriever whose
\* every chunk embedding failed at load, returns the empty list and leaves
\* chunks and embeddings as they were.
C5_EmbeddingFailureGivesEmpty ==
    [][(ret = NoCall /\ ret' # NoCall /\ (~ret'.q_resp.ok \/ Valid = {})) =>
           /\ ret'.results = << >>
           /\ chunks' = chunks
           /\ embeddings' = embeddings]_vars

C5_Witness ==
    /\ ret # NoCall
    /\ ret.q_resp.ok
    /\ Len(chunks) = 2
    /\ Valid = {}
    /\ ret.results = << >>

-----------------------------------------------------------------------------
(* Properties of the front ends, under Spec.                               *)

\* The band a stored feedback text stands for.
Band(turn) ==
    CASE turn.feedback = "Correct!" -> "Correct"
      [] turn.feedback = "Partially correct." -> "Partial"
      [] turn.feedback = "Incorrect or unrelated." -> "Incorrect"
      [] OTHER -> "Unscored"

\* The grading rule as the specification words it, on an exact fraction.
RuleBand(sim) ==
    IF 20 * sim.num > 17 * sim.den THEN "Correct"
    ELSE IF 5 * sim.num > 3 * sim.den THEN "Partial"
    ELSE "Incorrect"

Scored(turn) == turn.similarity.py = "float"

\* C6: every turn with a similarity has the band of the rule (above 0.85
\* Correct, above 0.6 and at most 0.85 Partial, at most 0.6 Incorrect; 0.85
\* itself Partial and 0.6 itself Incorrect), and every turn without one is
\* Unscored.
C6_GradingBands ==
    \A k \in 1..Len(conversation) :
        LET t == conversation[k]
        IN  /\ Scored(t) => Band(t) = RuleBand(t.similarity)
            /\ (Scored(t) /\ t.similarity = Float(17, 20)) => Band(t) = "Partial"
            /\ (Scored(t) /\ t.similarity = Float(3, 5)) => Band(t) = "Incorrect"
            /\ ~Scored(t) => Band(t) = "Unscored"

C6_Witness ==
    /\ Len(conversation) = 2
    /\ conversation[1].similarity = Float(17, 20)
    /\ Band(conversation[1]) = "Partial"
    /\ conversation[2].similarity = Float(3, 5)
    /\ Band(conversation[2]) = "Incorrect"

Shows(r, text) == \E k \in 1..Len(r.display) : r.display[k].text = text
Logged(r, level, what) ==
    \E k \in 1..Len(r.log) : r.log[k].level = level /\ r.log[k].what = what
Called(r, svc) == \E k \in 1..Len(r.calls) : r.calls[k] = svc

\* C7: a run in which generation raises shows the error notice, logs the
\* error and leaves the conversation as it was.
C7_GenerationFailureKeepsHistory ==
    [][run'.gen = [ok |-> FALSE] =>
           /\ conversation' = conversation
           /\ Shows(run', "Error generating answer")
           /\ Logged(run', "ERROR", "Error") \/ Logged(run', "ERROR", "Error generating answer")
           /\ Called(run', "generate")]_vars

C7_Witness ==
    /\ run.gen = [ok |-> FALSE]
    /\ Len(conversation) = 1
    /\ Shows(run, "Error generating answer")

\* C8: a run whose retrieval returns nothing shows the "no relevant chunks"
\* notice and logs it, calls neither the Generation Service nor the embedding
\* of the user answer, and leaves the conversation as it was.
C8_EmptyRetrievalStopsRun ==
    [][(run'.q_resp # Unset /\ run'.results = << >>) =>
           /\ conversation' = conversation
           /\ Shows(run', "No relevant chunks found for this question.")
           /\ Logged(run', "INFO", "No relevant chunks found.")
                  \/ Logged(run', "WARNING", "No relevant chunks found for this question.")
           /\ ~Called(run', "generate")
           /\ ~Called(run', "embed user answer")
           /\ ~Called(run', "embed model answer")
           /\ run'.calls = <<"embed query">>]_vars

C8_Witness ==
    /\ run.q_resp # Unset
    /\ ~run.q_resp.ok
    /\ run.results = << >>
    /\ Len(conversation) = 1
    /\ Shows(run, "No relevant chunks found for this question.")

\* C9: a run in which generation answers appends exactly one turn with the
\* question, the user answer and the model answer; the turn has no similarity
\* and is Unscored exactly when the embedding of the user answer or of the
\* model answer failed, and otherwise its similarity is the cosine of the two
\* embeddings and its band is the rule applied to it.
C9_ResponseAppendsOneTurn ==
    [][(run'.gen # Unset /\ run'.gen.ok) =>
           /\ Len(conversation') = Len(conversation) + 1
           /\ SubSeq(conversation', 1, Len(conversation)) = conversation
           /\ LET t == conversation'[Len(conversation')]
                  failed == run'.user_emb = None \/ run'.model_emb = None
              IN  /\ t.question = run'.question
                  /\ t.user_answer = run'.user_answer
                  /\ t.model_answer = run'.gen.text
                  /\ ~Scored(t) <=> failed
                  /\ Band(t) = "Unscored" <=> failed
                  /\ ~failed =>
                         /\ t.similarity = _cosine_sim(run'.user_emb, run'.model_emb)
                         /\ Band(t) = RuleBand(t.similarity)]_vars

C9_Witness ==
    /\ Len(conversation) = 2
    /\ run.gen # Unset
    /\ run.gen.ok
    /\ run.user_emb = None
    /\ run.model_emb # None
    /\ Band(conversation[2]) = "Unscored"
    /\ Band(conversation[1]) = "Correct"

\* C10: a chunk or answer with a zero-norm embedding scores the sentinel;
\* no retrieve result places a zero-norm chunk ahead of a chunk with a
\* non-zero embedding, and a turn graded on the sentinel is Incorrect.
ZeroNorm(k) == embeddings[k] # None /\ Norm(embeddings[k]) = 0

C10_ZeroNormNeverAhead ==
    /\ ret # NoCall =>
           LET r == ret.results
           IN  /\ \A p \in 1..Len(r) :
                      ZeroNorm(r[p].chunk_id + 1) => r[p].score = Float(-1, 1)
               /\ \A p \in 1..Len(r) : \A q \in (p + 1)..Len(r) :
                      ~(ZeroNorm(r[p].chunk_id + 1) /\ ~ZeroNorm(r[q].chunk_id + 1))
    /\ \A k \in 1..Len(conversation) :
           (Scored(conversation[k]) /\ conversation[k].similarity = Float(-1, 1))
               => Band(conversation[k]) = "Incorrect"

-----------------------------------------------------------------------------
(* Properties of a whole submission and of the history, under Spec.        *)

\* A run that took an answer with something in it: the submit branch of
\* app.py, or an iteration of the console loop that did not leave the loop.
Submitted(r) == r.op \in {"submit", "turn"} /\ Strip(r.user_answer) # << >>

\* The entries of a display that give feedback on the answer.
GivesFeedback(r) ==
    \E k \in 1..Len(r.display) : r.display[k].show \in {"feedback", "info"}

BoolCount(b) == IF b THEN 1 ELSE 0

\* C11: every run that takes a non-empty answer produces exactly one of a
\* newly appended turn for that answer, shown with its feedback, the "no
\* relevant chunks" notice, or the generation error notice, whichever
\* embedding or generation calls failed.
C11_SubmissionGetsFeedback ==
    [][Submitted(run') =>
           LET n == Len(conversation)
               appended == /\ Len(conversation') = n + 1
                           /\ conversation'[n + 1].question = run'.question
                           /\ conversation'[n + 1].user_answer = run'.user_answer
                           /\ GivesFeedback(run')
               nochunks == Shows(run', "No relevant chunks found for this question.")
               generror == Shows(run', "Error generating answer")
           IN  /\ BoolCount(appended) + BoolCount(nochunks) + BoolCount(generror) = 1
               /\ ~appended => conversation' = conversation
               /\ run'.display # << >>]_vars

C11_Witness ==
    /\ Submitted(run)
    /\ run.gen # Unset
    /\ run.gen.ok
    /\ run.user_emb = None
    /\ run.model_emb = None
    /\ Len(conversation) = 2
    /\ conversation[2].user_answer = run.user_answer
    /\ Shows(run, "Could not compute feedback for your answer.")
\* The turn lists a display renders as history.
HistoryShown(r) ==
    {r.display[k].turns : k \in {j \in 1..Len(r.display) : r.display[j].show = "history"}}

\* A run of app.py that changes no turn: the first run, "Next Question", or
\* "Submit Answer" with an answer that strips to nothing.
LeavesHistory(r) ==
    \/ r.op \in {"start", "next"}
    \/ r.op = "submit" /\ Strip(r.user_answer) = << >>

\* C12: the conversation is append-only: every step keeps the turns it found,
\* in their order, and adds at most one turn, at the end, for the submission
\* of that step; a next-question request or a submission of an empty answer
\* leaves the conversation as it was; and the history a run displays is the
\* conversation in list order, so the k-th successful submission is turn k.
C12_HistoryAppendOnly ==
    [][LET n == Len(conversation)
       IN  /\ Len(conversation') \in {n, n + 1}
           /\ SubSeq(conversation', 1, n) = conversation
           /\ Len(conversation') = n + 1 =>
                  /\ run'.op \in {"submit", "turn"}
                  /\ conversation'[n + 1].question = run'.question
                  /\ conversation'[n + 1].user_answer = run'.user_answer
           /\ (frontend = "app" /\ LeavesHistory(run')) => conversation' = conversation
           /\ HistoryShown(run') \subseteq {conversation'}
           /\ (frontend = "app" /\ run'.op # "none" /\ conversation' # << >>)
                  => HistoryShown(run') = {conversation'}]_vars

C12_Witness ==
    /\ frontend = "app"
    /\ run.op = "submit"
    /\ run.user_answer = <<" ">>
    /\ Len(conversation) = 2
    /\ conversation[1] # conversation[2]
    /\ HistoryShown(run) = {conversation}
====
